---------------------------- MODULE Spec2Model ----------------------------
(***************************************************************************)
(* Model of the journey retrieval-and-normalization pipeline of flodo      *)
(* (src/app.js).  app.js holds two versions of the application one after   *)
(* the other: lines 1-294 (fetchJourneys without retry, getConnections     *)
(* without correlation; "variant 1") and lines 295-965 (retrying           *)
(* fetchJourneys, correlating getConnections; "variant 2").                *)
(*                                                                         *)
(* Representation:                                                         *)
(*  - a timestamp is the instant in milliseconds that "new Date(iso)"      *)
(*    yields for the ISO-8601 string of the payload;                       *)
(*  - a JS value that may be null/undefined is a sequence of length 0      *)
(*    (null) or 1 (the value);                                             *)
(*  - a line name is a sequence of characters, a direction text a sequence *)
(*    of whitespace-separated words.                                       *)
(***************************************************************************)
EXTENDS Integers, Sequences, FiniteSets, TLC

VARIABLES
    variant,      \* 1: app.js lines 1-294, 2: app.js lines 295-965
    mode,         \* "fetch": one fetchJourneys call, "conn": one getConnections call
    fpc,          \* position of the fetchJourneys call in flight
    attempt,      \* the loop variable i of the retrying fetchJourneys
    requests,     \* HTTP requests issued by the call in flight
    delays,       \* 1-second waits taken by the call in flight
    outcomes,     \* what each HTTP request of the call in flight yielded, in order
    raw,          \* data.journeys of the response the call processed
    kept,         \* indices of raw that the filter kept
    ret,          \* the array the call returned
    direction,    \* argument of getConnections
    gpc,          \* position of the getConnections call
    primary,      \* result of the first fetchJourneys of getConnections
    secondary,    \* result of the second fetchJourneys of getConnections
    failed,       \* 1, 2: the first, second fetchJourneys threw (variant 1) or
                  \* exhausted its retries (variant 2); 3: building the direct
                  \* U-Bahn connection threw inside the try block
    ubahn,        \* the values Promise.all collects from the three
                  \* fetchUBahnDepartures calls and, while it is pending, the
                  \* calls that settled so far, in order, with their values
    connections,  \* the Map of getConnections, in insertion order
    result,       \* the array getConnections returned
    ui,           \* the page: loading indicator, error banner, rendered
                  \* connections, last-update text written by this refresh
    cur,          \* which of two getConnections calls in flight is running
    other,        \* the local variables of the call that is not running
    page,         \* currentDirection, the localStorage entry 'direction', and the
                  \* values currentDirection took since initializeApp (last three)
    sw            \* the service worker: what its caches hold and how it answered
                  \* each fetch event

fetchVars == <<fpc, attempt, requests, delays, outcomes, raw, kept, ret>>
connVars  == <<direction, gpc, primary, secondary, failed, ubahn, connections, result>>
envVars   == <<ui, cur, other, page, sw>>
vars      == <<variant, mode, fetchVars, connVars, envVars>>

---------------------------------------------------------------------------
(* Bounds of the model *)

\* journeys in one API response
MaxJourneys == 2
\* legs in one journey of the fetch-level input families
MaxLegs == 2
\* merged connections handed to the final sort and cut (SpecSelect)
MaxConnections == 7
\* fetch events the service worker handles (SpecWorker)
MaxEvents == 2
\* journeys of the base fetch handed to the Map (SpecKeys)
MaxPrimaries == 3

---------------------------------------------------------------------------
(* Program constants *)

Retries == 2
MS_PER_MINUTE == 60000
ALLOWED_PRODUCTS == {"suburban", "regional", "subway"}

---------------------------------------------------------------------------
(* JS values *)

NULL == "null"
None == <<>>
Some(x) == <<x>>
IsNull(o) == Len(o) = 0
Val(o) == o[1]

\* Math.round(n / d) for d > 0: the nearest integer, halves towards +infinity
MathRound(n, d) == (2 * n + d) \div (2 * d)

Range(s) == {s[k] : k \in 1..Len(s)}

SeqsUpTo(S, n) == UNION {[1..m -> S] : m \in 0..n}

RECURSIVE SumDur(_)
SumDur(ks) == IF Len(ks) = 0 THEN 0 ELSE Head(ks).dur + SumDur(Tail(ks))

---------------------------------------------------------------------------
(* The upstream payloads the model draws from *)

NameS1  == <<"S", "1">>
NameS1p == <<"S", "1", " ", "(", "A", ")">>
NameREX == <<"R", "E", "X">>
NameBus == <<"1", "3", "A">>

DirMitte  == <<"Wien", "Mitte">>
DirMeidl  == <<"Wien", "Meidling", "Bahnhof">>
DirBreit  == <<"Breitenlee">>

\* Leg templates: everything of a raw leg but its times; dur is arrival - departure.
KindS1     == [walking |-> FALSE, line |-> Some([name |-> NameS1, product |-> "suburban"]),
               direction |-> Some(DirMeidl), platform |-> Some(1), delay |-> Some(120), dur |-> 150000]
KindS1p    == [walking |-> FALSE, line |-> Some([name |-> NameS1p, product |-> "suburban"]),
               direction |-> Some(DirMeidl), platform |-> Some(1), delay |-> None, dur |-> 210000]
KindREX    == [walking |-> FALSE, line |-> Some([name |-> NameREX, product |-> "regional"]),
               direction |-> Some(DirMitte), platform |-> Some(2), delay |-> Some(0), dur |-> 100000]
KindWalk   == [walking |-> TRUE, line |-> None,
               direction |-> None, platform |-> None, delay |-> None, dur |-> 80000]
KindBus    == [walking |-> FALSE, line |-> Some([name |-> NameBus, product |-> "bus"]),
               direction |-> Some(DirBreit), platform |-> None, delay |-> None, dur |-> 60000]
KindNoLine == [walking |-> FALSE, line |-> None,
               direction |-> None, platform |-> None, delay |-> None, dur |-> 60000]
KindNoProd == [walking |-> FALSE, line |-> Some([name |-> NameS1, product |-> NULL]),
               direction |-> Some(DirMitte), platform |-> None, delay |-> None, dur |-> 90000]

\* The legs of one journey follow each other: a leg departs when the one before arrives.
RawLeg(kind, dep) ==
    [departure |-> dep, arrival |-> dep + kind.dur, walking |-> kind.walking,
     line |-> kind.line, direction |-> kind.direction,
     departurePlatform |-> kind.platform, departureDelay |-> kind.delay]

RawJourney(start, kinds) ==
    [legs |-> Some([k \in 1..Len(kinds) |->
                      RawLeg(kinds[k], start + SumDur(SubSeq(kinds, 1, k - 1)))])]

\* A record of the journeys array without a legs field
NoLegsJourney == [legs |-> None]

\* Fetch-level families: a response holds up to MaxJourneys journeys, each without
\* a legs field or of 0..MaxLegs legs over the two leg templates of one family
Families ==
    {{KindS1, KindWalk}, {KindREX, KindBus}, {KindS1p, KindNoLine}, {KindWalk, KindNoProd}}

FamJourneys(fam) ==
    {NoLegsJourney} \cup {RawJourney(0, ks) : ks \in SeqsUpTo(fam, MaxLegs)}

FetchResponses == UNION {SeqsUpTo(FamJourneys(fam), MaxJourneys) : fam \in Families}

\* What one HTTP request can yield: a status that is not ok, a rejected fetch, a
\* body that is no JSON, a body without a journeys array, or a journeys array
FailureKinds == {"http_error", "network_error", "parse_error", "malformed"}

Outcomes(resps, kinds) ==
    {[kind |-> k, journeys |-> <<>>] : k \in kinds}
      \cup {[kind |-> "ok", journeys |-> r] : r \in resps}

---------------------------------------------------------------------------
(* Text cleanup (variant 2) *)

IsSpace(c) == c = " "

RECURSIVE TrimLeft(_)
TrimLeft(s) == IF Len(s) > 0 /\ IsSpace(Head(s)) THEN TrimLeft(Tail(s)) ELSE s

RECURSIVE TrimRight(_)
TrimRight(s) ==
    IF Len(s) > 0 /\ IsSpace(s[Len(s)]) THEN TrimRight(SubSeq(s, 1, Len(s) - 1)) ELSE s

Trim(s) == TrimLeft(TrimRight(s))

\* s.replace(/\s*\(.*/, ""): drop everything from the first parenthesis on, with
\* the white space in front of it
RECURSIVE BeforeParen(_)
BeforeParen(s) ==
    IF Len(s) = 0 THEN s
    ELSE IF Head(s) = "(" THEN <<>>
    ELSE <<Head(s)>> \o BeforeParen(Tail(s))

cleanLineName(s) == Trim(TrimRight(BeforeParen(s)))

\* lower case of the words the payloads use
ToLower(w) ==
    CASE w = "Wien" -> "wien"
      [] w = "Bahnhof" -> "bahnhof"
      [] w = "Station" -> "station"
      [] w = "Hbf" -> "hbf"
      [] OTHER -> w

BOILERPLATE == {"bahnhof", "station", "wien", "hbf"}

\* s.replace(/\b(bahnhof|station|Wien|hbf)\b/gi, "").replace(/\s+/g, " ").trim()
RECURSIVE clean(_)
clean(ws) ==
    IF Len(ws) = 0 THEN ws
    ELSE IF ToLower(Head(ws)) \in BOILERPLATE THEN clean(Tail(ws))
    ELSE <<Head(ws)>> \o clean(Tail(ws))

\* clean(s) with its optional chaining s?.replace(...): null stays null
cleanOpt(o) == IF IsNull(o) THEN None ELSE Some(clean(Val(o)))

---------------------------------------------------------------------------
(* fetchJourneys: filter and map *)

calculateDuration(departure, arrival) == MathRound(arrival - departure, MS_PER_MINUTE)

\* mutant: any leg that has a line passes, whatever its product
LegAllowed_AnyLine(leg) == leg.walking \/ ~IsNull(leg.line)

\* mutant: a line whose name carries a qualifier in parentheses is refused
LegAllowed_PlainName(leg) ==
    IF leg.walking THEN TRUE
    ELSE IF IsNull(leg.line) \/ Val(leg.line).product = NULL THEN FALSE
    ELSE /\ Val(leg.line).product \in ALLOWED_PRODUCTS
         /\ cleanLineName(Val(leg.line).name) = Val(leg.line).name

\* the callback of journey.legs.every(...)
LegAllowed(leg) ==
    IF leg.walking THEN TRUE
    ELSE IF IsNull(leg.line) \/ Val(leg.line).product = NULL THEN FALSE
    ELSE Val(leg.line).product \in ALLOWED_PRODUCTS

\* the callback of data.journeys.filter(...) of variant 2
JourneyFilter(journey) ==
    IF IsNull(journey.legs) \/ Len(Val(journey.legs)) = 0 THEN FALSE
    ELSE \A k \in 1..Len(Val(journey.legs)) : LegAllowed(Val(journey.legs)[k])

\* transfers of a normalized journey
Transfers(legs) == Len(legs) - 1

MapLeg(leg) ==
    [departure |-> leg.departure,
     arrival |-> leg.arrival,
     line |-> IF IsNull(leg.line) THEN None
              ELSE Some([name |-> cleanLineName(Val(leg.line).name),
                         product |-> Val(leg.line).product,
                         direction |-> leg.direction]),
     platform |-> leg.departurePlatform,
     delay |-> leg.departureDelay,
     direction |-> cleanOpt(leg.direction)]

\* the callback of filtered.map(...) of variant 2
MapJourney(journey) ==
    LET legs == Val(journey.legs) IN
    [departure |-> legs[1].departure,
     arrival |-> legs[Len(legs)].arrival,
     duration |-> calculateDuration(legs[1].departure, legs[Len(legs)].arrival),
     transfers |-> Transfers(legs),
     legs |-> [k \in 1..Len(legs) |-> MapLeg(legs[k])]]

\* indices of the elements of js that data.journeys.filter(...) keeps, from k on
RECURSIVE KeptFrom(_, _)
KeptFrom(js, k) ==
    IF k > Len(js) THEN <<>>
    ELSE (IF JourneyFilter(js[k]) THEN <<k>> ELSE <<>>) \o KeptFrom(js, k + 1)

Kept(js) == KeptFrom(js, 1)

\* mutant: the kept journeys are emitted last to first
Normalize_Reversed(js) ==
    [n \in 1..Len(Kept(js)) |-> MapJourney(js[Kept(js)[Len(Kept(js)) + 1 - n]])]

Normalize(js) == [n \in 1..Len(Kept(js)) |-> MapJourney(js[Kept(js)[n]])]

---------------------------------------------------------------------------
(* fetchJourneys of variant 2: the retry loop *)

\* mutant: the catch block rethrows once no attempt is left
AfterThrown_Rethrow(i) == IF i < Retries THEN "wait" ELSE "thrown"

\* mutant: a response without a journeys array ends the call at once
AfterMalformed_NoRetry(i) == "returned"

\* mutant: the catch block waits after the last attempt too and the loop goes on
AfterThrown_AlwaysWait(i) == "wait"

\* the catch block and the end of the loop: wait and go on, or fall out and return []
AfterThrown(i) == IF i < Retries THEN "wait" ELSE "returned"

\* the branch for a response without a journeys array: wait and continue, or return []
AfterMalformed(i) == IF i < Retries THEN "wait" ELSE "returned"

\* mutant: the map takes the legs out of the raw records it has processed
RawAfter_Consumed(js) ==
    [i \in 1..Len(js) |-> IF JourneyFilter(js[i]) THEN [legs |-> Some(<<>>)] ELSE js[i]]

\* the raw records once filter and map have run: both build new arrays and
\* objects and assign to nothing in data.journeys
RawAfter(js) == js

CallFetch ==
    /\ fpc' = "request"
    /\ attempt' = 0
    /\ requests' = 0
    /\ delays' = 0
    /\ outcomes' = <<>>
    /\ raw' = <<>>
    /\ kept' = <<>>
    /\ ret' = <<>>

\* one pass of the loop body up to its next await of a timer or its return
RetryStep(o) ==
    /\ requests' = requests + 1
    /\ outcomes' = Append(outcomes, o.kind)
    /\ IF o.kind = "ok"
       THEN /\ raw' = RawAfter(o.journeys)
            /\ kept' = Kept(o.journeys)
            /\ ret' = Normalize(o.journeys)
            /\ fpc' = "returned"
       ELSE /\ UNCHANGED <<raw, kept>>
            /\ ret' = <<>>
            /\ fpc' = IF o.kind = "malformed" THEN AfterMalformed(attempt)
                                              ELSE AfterThrown(attempt)
    /\ UNCHANGED <<attempt, delays>>

FetchRequest(resps, kinds) ==
    /\ variant = 2
    /\ fpc = "request"
    /\ \E o \in Outcomes(resps, kinds) : RetryStep(o)
    /\ UNCHANGED <<variant, mode>>

\* mutant: the loop goes on without counting the attempt
FetchWait_SameAttempt ==
    /\ variant = 2
    /\ fpc = "wait"
    /\ delays' = delays + 1
    /\ attempt' = attempt
    /\ fpc' = "request"
    /\ UNCHANGED <<variant, mode, requests, outcomes, raw, kept, ret>>

\* setTimeout(resolve, 1000) fires; the loop goes on with i + 1
FetchWait ==
    /\ variant = 2
    /\ fpc = "wait"
    /\ delays' = delays + 1
    /\ attempt' = attempt + 1
    /\ fpc' = "request"
    /\ UNCHANGED <<variant, mode, requests, outcomes, raw, kept, ret>>

---------------------------------------------------------------------------
(* fetchJourneys of variant 1: one request, errors rethrown *)

\* journey.legs.every(...) of variant 1; reading .every of a missing legs throws
Filter1Throws(journey) == IsNull(journey.legs)

JourneyFilter1(journey) ==
    \A k \in 1..Len(Val(journey.legs)) : LegAllowed(Val(journey.legs)[k])

\* journey.legs[0].departure of a kept journey without legs throws
Map1Throws(journey) == Len(Val(journey.legs)) = 0

MapLeg1(leg) ==
    [departure |-> leg.departure,
     arrival |-> leg.arrival,
     line |-> IF IsNull(leg.line) THEN None
              ELSE Some([name |-> Val(leg.line).name,
                         product |-> Val(leg.line).product,
                         direction |-> leg.direction]),
     platform |-> leg.departurePlatform,
     delay |-> leg.departureDelay,
     direction |-> None]

MapJourney1(journey) ==
    LET legs == Val(journey.legs) IN
    [departure |-> legs[1].departure,
     arrival |-> legs[Len(legs)].arrival,
     duration |-> calculateDuration(legs[1].departure, legs[Len(legs)].arrival),
     transfers |-> Len(legs) - 1,
     legs |-> [k \in 1..Len(legs) |-> MapLeg1(legs[k])]]

RECURSIVE Kept1From(_, _)
Kept1From(js, k) ==
    IF k > Len(js) THEN <<>>
    ELSE (IF JourneyFilter1(js[k]) THEN <<k>> ELSE <<>>) \o Kept1From(js, k + 1)

Kept1(js) == Kept1From(js, 1)

\* whether fetchJourneys of variant 1 throws on a response with these journeys
Throws1(js) ==
    \/ \E k \in 1..Len(js) : Filter1Throws(js[k])
    \/ \E n \in 1..Len(Kept1(js)) : Map1Throws(js[Kept1(js)[n]])

Fetch1Step(o) ==
    /\ requests' = requests + 1
    /\ outcomes' = Append(outcomes, o.kind)
    /\ IF o.kind = "ok" /\ ~Throws1(o.journeys)
       THEN /\ raw' = o.journeys
            /\ kept' = Kept1(o.journeys)
            /\ ret' = [n \in 1..Len(Kept1(o.journeys)) |->
                          MapJourney1(o.journeys[Kept1(o.journeys)[n]])]
            /\ fpc' = "returned"
       ELSE /\ raw' = o.journeys
            /\ kept' = <<>>
            /\ ret' = <<>>
            /\ fpc' = "thrown"
    /\ UNCHANGED <<attempt, delays>>

Fetch1Request(resps, kinds) ==
    /\ variant = 1
    /\ fpc = "request"
    /\ \E o \in Outcomes(resps, kinds) : Fetch1Step(o)
    /\ UNCHANGED <<variant, mode>>

---------------------------------------------------------------------------
(* fetchUBahnDepartures and the time helpers *)

\* date.toLocaleTimeString('de-AT', {hour: '2-digit', minute: '2-digit'}): the
\* hour and the minute of the local day, the day and the seconds dropped
formatTime(ms) == [h |-> (ms \div 3600000) % 24, m |-> (ms \div MS_PER_MINUTE) % 60]

\* the callback of departures.sort(...): a is left in front of x
CountdownBeforeOrEqual(a, x) == a.countdown <= x.countdown

InsertByCountdown(sorted, x) ==
    LET n == Cardinality({k \in 1..Len(sorted) : CountdownBeforeOrEqual(sorted[k], x)})
    IN SubSeq(sorted, 1, n) \o <<x>> \o SubSeq(sorted, n + 1, Len(sorted))

RECURSIVE SortByCountdown(_)
SortByCountdown(s) ==
    IF Len(s) = 0 THEN <<>>
    ELSE InsertByCountdown(SortByCountdown(SubSeq(s, 1, Len(s) - 1)), s[Len(s)])

\* mutant: nothing is cut off
Slice_All(s, n) == s

Slice(s, n) == SubSeq(s, 1, IF Len(s) < n THEN Len(s) ELSE n)

UBAHN_TOP == 3

\* payload: None when the request or its parsing failed, else the departures of
\* the monitored line towards the wanted terminus that carry a countdown
\* the text "Invalid Date" that toLocaleTimeString gives for an invalid Date
INVALID_DATE == [h |-> -1, m |-> -1]

\* formatTime(new Date(dep.timePlanned)); timePlanned may be missing
FormatPlanned(timePlanned) ==
    IF IsNull(timePlanned) THEN INVALID_DATE ELSE formatTime(Val(timePlanned))

fetchUBahnDepartures(payload) ==
    IF IsNull(payload) THEN <<>>
    ELSE LET top == Slice(SortByCountdown(Val(payload)), UBAHN_TOP)
         IN [k \in 1..Len(top) |-> FormatPlanned(top[k].timePlanned)]

TRAVEL_FLORIDSDORF_SPITTELAU == 13
TRAVEL_SPITTELAU_KARLSPLATZ == 10

calculateUBahnArrival(trainArrival, transferTime, travelTime) ==
    formatTime(trainArrival + (transferTime + travelTime) * MS_PER_MINUTE)

\* parseInt of "Invalid Date" is NaN, setHours(NaN, NaN, 0, 0) makes the Date
\* invalid, and toISOString() of an invalid Date throws a RangeError
DirectThrows(hm) == hm = INVALID_DATE

\* new Date(now) with setHours(h, m, 0, 0), a day later when that is before now
DirectDeparture(now, hm) ==
    LET sameDay == (now \div 86400000) * 86400000 + hm.h * 3600000 + hm.m * MS_PER_MINUTE
    IN IF sameDay < now THEN sameDay + 86400000 ELSE sameDay

---------------------------------------------------------------------------
(* getConnections of variant 2: correlation *)

NoUBahn ==
    [wienMitte |-> None, praterstern |-> None, spittelau |-> None,
     karlsplatzU4 |-> None, karlsplatzU1 |-> None]

\* mutant: the key leaves the line name out
CorrelationKey_DepartureOnly(conn) ==
    [tag |-> "journey", departure |-> conn.departure, name |-> <<>>]

\* `${conn.departure}_${conn.legs[0].line?.name || ''}`
CorrelationKey(conn) ==
    [tag |-> "journey", departure |-> conn.departure,
     name |-> IF IsNull(conn.legs[1].line) THEN <<>> ELSE Val(conn.legs[1].line).name]

DirectKey(tag, departure) == [tag |-> tag, departure |-> departure, name |-> <<>>]

\* The Map: a sequence of entries in insertion order, one per key
MapHas(m, key) == \E k \in 1..Len(m) : m[k].key = key
MapIndex(m, key) == CHOOSE k \in 1..Len(m) : m[k].key = key
MapGet(m, key) == m[MapIndex(m, key)].value
\* mutant: a key that is present keeps its value
MapSet_KeepFirst(m, key, value) ==
    IF MapHas(m, key) THEN m
    ELSE Append(m, [key |-> key, value |-> value])

MapSet(m, key, value) ==
    IF MapHas(m, key) THEN [m EXCEPT ![MapIndex(m, key)].value = value]
    ELSE Append(m, [key |-> key, value |-> value])
MapValues(m) == [k \in 1..Len(m) |-> m[k].value]

\* mutant: the entry starts with the journey's own arrival as pratersternArrival
BaseForward_OwnArrival(conn, u4WienMitte) ==
    [departure |-> conn.departure, arrival |-> conn.arrival, duration |-> conn.duration,
     transfers |-> conn.transfers, legs |-> conn.legs, isUBahn |-> FALSE,
     wienMitteArrival |-> Some(conn.arrival),
     floridsdorfArrival |-> None,
     pratersternArrival |-> Some(conn.arrival),
     targetStation |-> NULL, originStation |-> NULL,
     ubahnConnections |->
        [NoUBahn EXCEPT !.wienMitte =
            Some([arrival |-> conn.arrival, nextU4 |-> u4WienMitte,
                  karlsplatzArrival |-> calculateUBahnArrival(conn.arrival, 5, 5)])]]

\* the entry set for a journey of the Wien Mitte fetch (forward)
BaseForward(conn, u4WienMitte) ==
    [departure |-> conn.departure, arrival |-> conn.arrival, duration |-> conn.duration,
     transfers |-> conn.transfers, legs |-> conn.legs, isUBahn |-> FALSE,
     wienMitteArrival |-> Some(conn.arrival),
     floridsdorfArrival |-> None,
     pratersternArrival |-> None,
     targetStation |-> NULL, originStation |-> NULL,
     ubahnConnections |->
        [NoUBahn EXCEPT !.wienMitte =
            Some([arrival |-> conn.arrival, nextU4 |-> u4WienMitte,
                  karlsplatzArrival |-> calculateUBahnArrival(conn.arrival, 5, 5)])]]

\* the entry set for a journey of the Floridsdorf fetch (reverse)
BaseReverse(conn, u4Karlsplatz, u1Karlsplatz) ==
    [departure |-> conn.departure, arrival |-> conn.arrival, duration |-> conn.duration,
     transfers |-> conn.transfers, legs |-> conn.legs, isUBahn |-> FALSE,
     wienMitteArrival |-> None,
     floridsdorfArrival |-> Some(conn.arrival),
     pratersternArrival |-> None,
     targetStation |-> NULL, originStation |-> NULL,
     ubahnConnections |->
        [NoUBahn EXCEPT !.karlsplatzU4 = Some(Slice(u4Karlsplatz, 3)),
                        !.karlsplatzU1 = Some(Slice(u1Karlsplatz, 3))]]

\* the first forEach: every journey of the base fetch is set under its key
RECURSIVE SetBaseForward(_, _, _)
SetBaseForward(m, conns, u4WienMitte) ==
    IF Len(conns) = 0 THEN m
    ELSE SetBaseForward(MapSet(m, CorrelationKey(Head(conns)),
                               BaseForward(Head(conns), u4WienMitte)),
                        Tail(conns), u4WienMitte)

RECURSIVE SetBaseReverse(_, _, _, _)
SetBaseReverse(m, conns, u4Karlsplatz, u1Karlsplatz) ==
    IF Len(conns) = 0 THEN m
    ELSE SetBaseReverse(MapSet(m, CorrelationKey(Head(conns)),
                               BaseReverse(Head(conns), u4Karlsplatz, u1Karlsplatz)),
                        Tail(conns), u4Karlsplatz, u1Karlsplatz)

\* the body of pratersternConnections.forEach (forward) on an entry that exists
AttachForward(connection, conn, u1Praterstern) ==
    [connection EXCEPT
        !.pratersternArrival = Some(conn.arrival),
        !.ubahnConnections.praterstern =
            Some([arrival |-> conn.arrival, nextU1 |-> u1Praterstern,
                  karlsplatzArrival |-> calculateUBahnArrival(conn.arrival, 5, 6)])]

\* the body of pratersternConnections.forEach (reverse) on an entry that exists
AttachReverse(connection, conn) ==
    [connection EXCEPT !.pratersternArrival = Some(conn.arrival)]

\* if (connections.has(key)): whether the Praterstern journey finds its entry
Matches(m, conn) == MapHas(m, CorrelationKey(conn))

RECURSIVE MergeForward(_, _, _)
MergeForward(m, conns, u1Praterstern) ==
    IF Len(conns) = 0 THEN m
    ELSE LET conn == Head(conns)
             key == CorrelationKey(conn)
             next == IF Matches(m, conn)
                     THEN MapSet(m, key, AttachForward(MapGet(m, key), conn, u1Praterstern))
                     ELSE m
         IN MergeForward(next, Tail(conns), u1Praterstern)

RECURSIVE MergeReverse(_, _)
MergeReverse(m, conns) ==
    IF Len(conns) = 0 THEN m
    ELSE LET conn == Head(conns)
             key == CorrelationKey(conn)
             next == IF Matches(m, conn)
                     THEN MapSet(m, key, AttachReverse(MapGet(m, key), conn))
                     ELSE m
         IN MergeReverse(next, Tail(conns))

\* duration of the synthesized connections: ride, transfer, ride
DirectDuration == TRAVEL_FLORIDSDORF_SPITTELAU + 5 + TRAVEL_SPITTELAU_KARLSPLATZ

\* transfers of the synthesized connections
DirectTransfers == 1

\* u6Connection (forward)
U6Connection(u6Departure, u4Spittelau) ==
    LET spittelauArrival == u6Departure + TRAVEL_FLORIDSDORF_SPITTELAU * MS_PER_MINUTE IN
    [departure |-> u6Departure, arrival |-> spittelauArrival,
     duration |-> DirectDuration, transfers |-> DirectTransfers, isUBahn |-> TRUE,
     legs |-> <<[departure |-> u6Departure, arrival |-> spittelauArrival,
                 line |-> Some([name |-> <<"U", "6">>, product |-> "subway",
                                direction |-> None]),
                 platform |-> None, delay |-> Some(0),
                 direction |-> Some(<<"Siebenhirten">>)]>>,
     wienMitteArrival |-> None, floridsdorfArrival |-> None, pratersternArrival |-> None,
     targetStation |-> NULL, originStation |-> NULL,
     ubahnConnections |->
        [NoUBahn EXCEPT !.spittelau =
            Some([arrival |-> spittelauArrival, next |-> u4Spittelau,
                  onwardArrival |-> calculateUBahnArrival(spittelauArrival, 5,
                                        TRAVEL_SPITTELAU_KARLSPLATZ)])]]

\* u4U6Connection (reverse)
U4U6Connection(u4Departure, u6Spittelau) ==
    LET spittelauArrival == u4Departure + TRAVEL_SPITTELAU_KARLSPLATZ * MS_PER_MINUTE IN
    [departure |-> u4Departure, arrival |-> spittelauArrival,
     duration |-> DirectDuration, transfers |-> DirectTransfers, isUBahn |-> TRUE,
     legs |-> <<[departure |-> u4Departure, arrival |-> spittelauArrival,
                 line |-> Some([name |-> <<"U", "4">>, product |-> "subway",
                                direction |-> None]),
                 platform |-> None, delay |-> Some(0),
                 direction |-> Some(<<"Heiligenstadt">>)]>>,
     wienMitteArrival |-> None, floridsdorfArrival |-> None, pratersternArrival |-> None,
     targetStation |-> NULL, originStation |-> NULL,
     ubahnConnections |->
        [NoUBahn EXCEPT !.spittelau =
            Some([arrival |-> spittelauArrival, next |-> u6Spittelau,
                  onwardArrival |-> calculateUBahnArrival(spittelauArrival, 5,
                                        TRAVEL_FLORIDSDORF_SPITTELAU)])]]

---------------------------------------------------------------------------
(* Ranking and selection *)

\* mutant: an element is placed in front of the elements of equal departure
BeforeOrEqual_Strict(a, x) == a.departure < x.departure

\* (a, b) => new Date(a.departure) - new Date(b.departure) is <= 0: the stable
\* Array.prototype.sort leaves a in front of x
BeforeOrEqual(a, x) == a.departure <= x.departure

InsertByDeparture(sorted, x) ==
    LET n == Cardinality({k \in 1..Len(sorted) : BeforeOrEqual(sorted[k], x)})
    IN SubSeq(sorted, 1, n) \o <<x>> \o SubSeq(sorted, n + 1, Len(sorted))

RECURSIVE SortByDeparture(_)
SortByDeparture(s) ==
    IF Len(s) = 0 THEN <<>>
    ELSE InsertByDeparture(SortByDeparture(SubSeq(s, 1, Len(s) - 1)), s[Len(s)])

RESULT_LIMIT == 6
RESULT_LIMIT_1 == 5

\* Array.from(connections.values()).sort(...).slice(0, 6)
Select(m) == Slice(SortByDeparture(MapValues(m)), RESULT_LIMIT)

\* allConnections.sort(...).slice(0, 5) of variant 1
Select1(all) == Slice(SortByDeparture(all), RESULT_LIMIT_1)

---------------------------------------------------------------------------
(* getConnections: the steps between its awaits *)

\* Pipeline-level payloads: the same train as reported for two destinations (S1 and
\* S1 with a qualifier in parentheses, same departure, different arrival), a later
\* S1, and a journey of another line that starts on foot at the same instant
ConnJourneys ==
    {RawJourney(0, <<KindS1>>), RawJourney(0, <<KindS1p>>),
     RawJourney(120000, <<KindS1>>), RawJourney(0, <<KindWalk, KindREX>>)}
ConnResponses == SeqsUpTo(ConnJourneys, MaxJourneys)
ConnFailureKinds == {"network_error", "malformed"}

\* Wiener Linien payloads: a failed request, or two departures listed out of order
UBahnPayload ==
    Some(<<[countdown |-> 7, timePlanned |-> Some(420000)],
           [countdown |-> 2, timePlanned |-> Some(120000)]>>)
\* a departure with a countdown and no (parseable) timePlanned
UBahnUndated == Some(<<[countdown |-> 1, timePlanned |-> None]>>)
UBahnPayloads == {None, UBahnPayload}

\* payloads of the three requests under Promise.all, by position of the call
CallPayloads ==
    [k \in {1, 2, 3} |->
        IF k = 1 THEN {None, UBahnPayload, UBahnUndated}
        ELSE IF k = 2 THEN {UBahnPayload}
        ELSE {None}]

\* values of new Date() when the direct connection is built
Nows == {30000, 150000}

NoDepartures == [first |-> <<>>, second |-> <<>>, third |-> <<>>, order |-> <<>>]

\* calls of Promise.all([...]) that have settled
Settled(u) == {u.order[n].call : n \in 1..Len(u.order)}

\* mutant: the values are collected in the order in which the calls settle
PromiseAllSlot_Arrival(k, order) == Len(order) + 1

\* Promise.all puts the value of the k-th promise at position k of its result
PromiseAllSlot(k, order) == k

SetSlot(u, slot, value) ==
    IF slot = 1 THEN [u EXCEPT !.first = value]
    ELSE IF slot = 2 THEN [u EXCEPT !.second = value]
    ELSE [u EXCEPT !.third = value]

FetchIdle ==
    /\ fpc' = "idle"
    /\ attempt' = 0
    /\ requests' = 0
    /\ delays' = 0
    /\ outcomes' = <<>>
    /\ raw' = <<>>
    /\ kept' = <<>>
    /\ ret' = <<>>

\* the call in flight ended without a journeys array from any of its requests
Exhausted == Len(outcomes) > 0 /\ outcomes[Len(outcomes)] # "ok"

\* await fetchJourneys(...) of the first fetch resumes
GC2_AfterFirst ==
    /\ variant = 2 /\ mode = "conn" /\ gpc = "fetch1" /\ fpc = "returned"
    /\ primary' = ret
    /\ failed' = IF Exhausted THEN failed \cup {1} ELSE failed
    /\ gpc' = "delay"
    /\ FetchIdle
    /\ UNCHANGED <<variant, mode, direction, secondary, ubahn, connections, result>>

\* the 200 ms timer fires and the second fetchJourneys is called
GC2_Delay ==
    /\ variant = 2 /\ mode = "conn" /\ gpc = "delay"
    /\ gpc' = "fetch2"
    /\ CallFetch
    /\ UNCHANGED <<variant, mode, direction, primary, secondary, failed, ubahn,
                   connections, result>>

\* await fetchJourneys(...) of the second fetch resumes
GC2_AfterSecond ==
    /\ variant = 2 /\ mode = "conn" /\ gpc = "fetch2" /\ fpc = "returned"
    /\ secondary' = ret
    /\ failed' = IF Exhausted THEN failed \cup {2} ELSE failed
    /\ gpc' = "ubahn"
    /\ FetchIdle
    /\ UNCHANGED <<variant, mode, direction, primary, ubahn, connections, result>>

\* one of the three fetchUBahnDepartures calls under Promise.all settles
UBahnSettle(payloads) ==
    /\ variant = 2 /\ mode = "conn" /\ gpc = "ubahn"
    /\ \E k \in {1, 2, 3} \ Settled(ubahn) :
         \E p \in payloads[k] :
            LET value == fetchUBahnDepartures(p)
                slot == PromiseAllSlot(k, ubahn.order)
            IN ubahn' = [SetSlot(ubahn, slot, value) EXCEPT
                            !.order = Append(@, [call |-> k, value |-> value])]
    /\ UNCHANGED <<variant, mode, direction, gpc, primary, secondary, failed,
                   connections, result, fetchVars>>

\* the Map m after both forEach loops
Correlate(m, dir, prim, sec, dep) ==
    IF dir = "forward"
    THEN MergeForward(SetBaseForward(m, prim, dep.third), sec, dep.second)
    ELSE MergeReverse(SetBaseReverse(m, prim, dep.first, dep.second), sec)

\* whether the reverse direction builds a direct connection and throws doing so
ReverseDirectThrows(dep) == Len(dep.first) > 0 /\ DirectThrows(dep.first[1])

\* the Map with the direct U4/U6 connection of the reverse direction, if any
WithDirectReverse(m, dep, now) ==
    IF Len(dep.first) > 0 /\ ~DirectThrows(dep.first[1])
    THEN LET u4Departure == DirectDeparture(now, dep.first[1])
         IN MapSet(m, DirectKey("u4_direct", u4Departure),
                   U4U6Connection(u4Departure, dep.third))
    ELSE m

\* Promise.all of the three fetchUBahnDepartures resolves; the code runs on to the
\* await of the Spittelau request (forward, a U6 departure known) or to its return
GC2_Join ==
    /\ variant = 2 /\ mode = "conn" /\ gpc = "ubahn"
    /\ Settled(ubahn) = {1, 2, 3}
    /\ \E now \in Nows :
         LET dep == ubahn
             m == Correlate(connections, direction, primary, secondary, dep)
         IN IF direction = "forward"
            THEN IF Len(dep.first) > 0
                 THEN /\ connections' = m
                      /\ gpc' = "spittelau"
                      /\ UNCHANGED <<result, failed>>
                 ELSE /\ connections' = m
                      /\ result' = Select(m)
                      /\ gpc' = "done"
                      /\ UNCHANGED failed
            ELSE /\ connections' = WithDirectReverse(m, dep, now)
                 /\ result' = Select(WithDirectReverse(m, dep, now))
                 /\ failed' = IF ReverseDirectThrows(dep) THEN failed \cup {3} ELSE failed
                 /\ gpc' = "done"
    /\ ubahn' = [ubahn EXCEPT !.order = <<>>]
    /\ UNCHANGED <<variant, mode, direction, primary, secondary, fetchVars>>

\* the Spittelau request resolves: the direct U6 connection is set, the Map is
\* sorted and cut
GC2_Spittelau ==
    /\ variant = 2 /\ mode = "conn" /\ gpc = "spittelau"
    /\ \E p \in UBahnPayloads, now \in Nows :
         LET u6Departure == DirectDeparture(now, ubahn.first[1])
             m == IF DirectThrows(ubahn.first[1]) THEN connections
                  ELSE MapSet(connections, DirectKey("u6_direct", u6Departure),
                              U6Connection(u6Departure, fetchUBahnDepartures(p)))
         IN /\ connections' = m
            /\ result' = Select(m)
            /\ failed' = IF DirectThrows(ubahn.first[1]) THEN failed \cup {3} ELSE failed
            /\ gpc' = "done"
    /\ UNCHANGED <<variant, mode, direction, primary, secondary, ubahn, fetchVars>>

\* variant 1: {...c, targetStation} (forward) or {...c, originStation} (reverse)
WithStation(c, dir, station) ==
    [departure |-> c.departure, arrival |-> c.arrival, duration |-> c.duration,
     transfers |-> c.transfers, legs |-> c.legs, isUBahn |-> FALSE,
     wienMitteArrival |-> None, floridsdorfArrival |-> None, pratersternArrival |-> None,
     targetStation |-> IF dir = "forward" THEN station ELSE NULL,
     originStation |-> IF dir = "forward" THEN NULL ELSE station,
     ubahnConnections |-> NoUBahn]

\* allConnections.push(...connections.map(...)); the array is kept as entries whose
\* key is the position
RECURSIVE PushAll(_, _, _, _)
PushAll(all, conns, dir, station) ==
    IF Len(conns) = 0 THEN all
    ELSE PushAll(Append(all, [key |-> DirectKey("index", Len(all)),
                              value |-> WithStation(Head(conns), dir, station)]),
                 Tail(conns), dir, station)

\* mutant: no try/catch around the first fetchJourneys; getConnections ends with
\* the exception
GC1_AfterFirst_Uncaught ==
    /\ variant = 1 /\ mode = "conn" /\ gpc = "fetch1" /\ fpc \in {"returned", "thrown"}
    /\ primary' = ret
    /\ failed' = IF fpc = "thrown" THEN failed \cup {1} ELSE failed
    /\ connections' = IF fpc = "returned"
                      THEN PushAll(connections, ret, direction, "Wien Mitte")
                      ELSE connections
    /\ IF fpc = "returned"
       THEN gpc' = "fetch2" /\ CallFetch
       ELSE gpc' = "done" /\ FetchIdle
    /\ UNCHANGED <<variant, mode, direction, secondary, ubahn, result>>

\* variant 1: the first fetchJourneys returned or threw (caught and logged)
GC1_AfterFirst ==
    /\ variant = 1 /\ mode = "conn" /\ gpc = "fetch1" /\ fpc \in {"returned", "thrown"}
    /\ primary' = ret
    /\ failed' = IF fpc = "thrown" THEN failed \cup {1} ELSE failed
    /\ connections' = IF fpc = "returned"
                      THEN PushAll(connections, ret, direction, "Wien Mitte")
                      ELSE connections
    /\ gpc' = "fetch2"
    /\ CallFetch
    /\ UNCHANGED <<variant, mode, direction, secondary, ubahn, result>>

\* variant 1: the second fetchJourneys returned or threw; sort and cut
GC1_AfterSecond ==
    /\ variant = 1 /\ mode = "conn" /\ gpc = "fetch2" /\ fpc \in {"returned", "thrown"}
    /\ secondary' = ret
    /\ failed' = IF fpc = "thrown" THEN failed \cup {2} ELSE failed
    /\ LET all == IF fpc = "returned"
                  THEN PushAll(connections, ret, direction, "Praterstern")
                  ELSE connections
       IN /\ connections' = all
          /\ result' = Select1(MapValues(all))
    /\ gpc' = "done"
    /\ FetchIdle
    /\ UNCHANGED <<variant, mode, direction, primary, ubahn>>

\* createConnectionElement reads firstLeg.line.product: a TypeError when the
\* first leg of a journey has no line (a walking leg)
ElementThrows(connection) == ~connection.isUBahn /\ IsNull(connection.legs[1].line)

\* the elements displayConnections appended before an element failed to build
RECURSIVE Rendered(_)
Rendered(cs) ==
    IF Len(cs) = 0 \/ ElementThrows(Head(cs)) THEN <<>>
    ELSE <<Head(cs)>> \o Rendered(Tail(cs))

\* the page after showLoading(true), no error shown
UiLoading ==
    [loading |-> TRUE, error |-> FALSE, shown |-> <<>>, updated |-> FALSE,
     fetchedFor |-> "none", renderedAs |-> "none"]

\* mutant: showLoading(false) at the end of the try block instead of in finally
LC_Resume_NoFinally ==
    /\ mode = "conn" /\ gpc = "done"
    /\ ui' = IF \E n \in 1..Len(result) : ElementThrows(result[n])
             THEN [loading |-> ui.loading, error |-> TRUE,
                   shown |-> Rendered(result), updated |-> ui.updated,
                   fetchedFor |-> direction, renderedAs |-> page.currentDirection]
             ELSE [loading |-> FALSE, error |-> FALSE,
                   shown |-> result, updated |-> TRUE,
                   fetchedFor |-> direction, renderedAs |-> page.currentDirection]
    /\ gpc' = "shown"
    /\ UNCHANGED <<variant, mode, direction, primary, secondary, failed, ubahn,
                   connections, result, fetchVars, cur, other, page, sw>>

\* loadConnections resumes when getConnections has returned: display, last-update
\* time, hideError; showError if that threw; showLoading(false) in either case
LC_Resume ==
    /\ mode = "conn" /\ gpc = "done"
    /\ ui' = IF \E n \in 1..Len(result) : ElementThrows(result[n])
             THEN [loading |-> FALSE, error |-> TRUE,
                   shown |-> Rendered(result), updated |-> ui.updated,
                   fetchedFor |-> direction, renderedAs |-> page.currentDirection]
             ELSE [loading |-> FALSE, error |-> FALSE,
                   shown |-> result, updated |-> TRUE,
                   fetchedFor |-> direction, renderedAs |-> page.currentDirection]
    /\ gpc' = "shown"
    /\ UNCHANGED <<variant, mode, direction, primary, secondary, failed, ubahn,
                   connections, result, fetchVars, cur, other, page, sw>>

\* the local variables of a call
Locals ==
    [direction |-> direction, gpc |-> gpc, primary |-> primary, secondary |-> secondary,
     failed |-> failed, ubahn |-> ubahn, connections |-> connections, result |-> result,
     fpc |-> fpc, attempt |-> attempt, requests |-> requests, delays |-> delays,
     outcomes |-> outcomes, raw |-> raw, kept |-> kept, ret |-> ret]

\* the local variables of a getConnections(dir) call up to its first request
StartedRun(dir) ==
    [direction |-> dir, gpc |-> "fetch1", primary |-> <<>>, secondary |-> <<>>,
     failed |-> {}, ubahn |-> NoDepartures, connections |-> <<>>, result |-> <<>>,
     fpc |-> "request", attempt |-> 0, requests |-> 0, delays |-> 0,
     outcomes |-> <<>>, raw |-> <<>>, kept |-> <<>>, ret |-> <<>>]

\* no second call
NoRun == [StartedRun("forward") EXCEPT !.gpc = "idle", !.fpc = "idle"]

\* mutant: one Map at module level, which every call fills
OwnMap_Shared(run) == connections

\* const connections = new Map() inside getConnections: the Map a call works on
\* is its own
OwnMap(run) == run.connections

\* at an await the other call in flight goes on: each call continues with its own
\* local variables
Switch ==
    /\ mode = "conn"
    /\ other.gpc \notin {"idle", "shown"}
    /\ cur' = 3 - cur
    /\ other' = Locals
    /\ direction' = other.direction
    /\ gpc' = other.gpc
    /\ primary' = other.primary
    /\ secondary' = other.secondary
    /\ failed' = other.failed
    /\ ubahn' = other.ubahn
    /\ connections' = OwnMap(other)
    /\ result' = other.result
    /\ fpc' = other.fpc
    /\ attempt' = other.attempt
    /\ requests' = other.requests
    /\ delays' = other.delays
    /\ outcomes' = other.outcomes
    /\ raw' = other.raw
    /\ kept' = other.kept
    /\ ret' = other.ret
    /\ UNCHANGED <<variant, mode, ui, page, sw>>

---------------------------------------------------------------------------
(* The page state that outlives a refresh *)

\* initializeApp: a saved direction that is truthy becomes currentDirection
initializeApp(saved) ==
    LET loaded == IF IsNull(saved) \/ Val(saved) = "" THEN "forward" ELSE Val(saved)
    IN [currentDirection |-> loaded, stored |-> saved, trail |-> <<loaded>>]

\* the last three values of currentDirection
Trail(trail, d) ==
    IF Len(trail) < 3 THEN Append(trail, d) ELSE Append(Tail(trail), d)

---------------------------------------------------------------------------
(* The service worker (sw.js).  A URL is the sequence of its parts between
   "/", "." and "?" *)

ApiNeedle == <<"oebb", "transport", "rest">>

Origin == <<"https:", "flodo", "app">>

\* urlsToCache, resolved against the origin
urlsToCache ==
    {Origin, Origin \o <<"index", "html">>, Origin \o <<"style", "css">>,
     Origin \o <<"app", "js">>, Origin \o <<"manifest", "json">>}

\* ${API}/journeys?... of fetchJourneys
JourneysUrl == <<"https:", "oebb", "macistry", "com", "api", "journeys", "from=1192101">>

\* a request to the host the fetch handler names
RestUrl == <<"https:", "oebb", "transport", "rest", "journeys", "from=1192101">>

\* String.prototype.includes: needle occurs in text as a contiguous part
Includes(text, needle) ==
    \E i \in 0..(Len(text) - Len(needle)) :
        \A j \in 1..Len(needle) : text[i + j] = needle[j]

\* what event.respondWith hands to the page for a request to url when caches
\* hold the URLs held and the network is or is not reachable
Respond(held, url, online) ==
    IF Includes(url, ApiNeedle)
    THEN IF online THEN "network" ELSE "offline_json"
    ELSE IF url \in held THEN "cache"
         ELSE IF online THEN "network" ELSE "rejected"

\* no service worker activity
NoWorker == [cached |-> {}, stale |-> {}, served |-> <<>>]

Init ==
    /\ variant \in {1, 2}
    /\ mode = "conn"
    /\ direction \in {"forward", "reverse"}
    /\ gpc = "fetch1"
    /\ fpc = "request"
    /\ attempt = 0
    /\ requests = 0
    /\ delays = 0
    /\ outcomes = <<>>
    /\ raw = <<>>
    /\ kept = <<>>
    /\ ret = <<>>
    /\ primary = <<>>
    /\ secondary = <<>>
    /\ failed = {}
    /\ ubahn = NoDepartures
    /\ connections = <<>>
    /\ result = <<>>
    /\ ui = UiLoading
    /\ cur = 1
    /\ other = NoRun
    /\ page = initializeApp(Some(direction))
    /\ sw = NoWorker

Next ==
    \/ FetchRequest(ConnResponses, ConnFailureKinds) /\ UNCHANGED <<connVars, envVars>>
    \/ FetchWait /\ UNCHANGED <<connVars, envVars>>
    \/ Fetch1Request(ConnResponses, ConnFailureKinds) /\ UNCHANGED <<connVars, envVars>>
    \/ GC2_AfterFirst /\ UNCHANGED envVars
    \/ GC2_Delay /\ UNCHANGED envVars
    \/ GC2_AfterSecond /\ UNCHANGED envVars
    \/ UBahnSettle(CallPayloads) /\ UNCHANGED envVars
    \/ GC2_Join /\ UNCHANGED envVars
    \/ GC2_Spittelau /\ UNCHANGED envVars
    \/ GC1_AfterFirst /\ UNCHANGED envVars
    \/ GC1_AfterSecond /\ UNCHANGED envVars
    \/ LC_Resume

Spec == Init /\ [][Next]_vars

---------------------------------------------------------------------------
(* Few responses, for the specifications that are about scheduling *)

PairResponses ==
    {<<RawJourney(0, <<KindS1>>)>>,
     <<RawJourney(120000, <<KindS1>>), RawJourney(0, <<KindWalk, KindREX>>)>>}

PairPayloads == [k \in {1, 2, 3} |-> IF k = 3 THEN {None} ELSE {UBahnPayload}]

PageResponses == {<<RawJourney(0, <<KindS1>>)>>}

\* one journey that can be rendered, one that starts on foot
LiveResponses == {<<RawJourney(0, <<KindS1>>)>>, <<RawJourney(0, <<KindWalk, KindREX>>)>>}

---------------------------------------------------------------------------
(* Specification of one refresh under fair scheduling: every request that was
   issued resolves or rejects and every timer fires *)

NextLive ==
    \/ FetchRequest(LiveResponses, ConnFailureKinds) /\ UNCHANGED <<connVars, envVars>>
    \/ FetchWait /\ UNCHANGED <<connVars, envVars>>
    \/ Fetch1Request(LiveResponses, ConnFailureKinds) /\ UNCHANGED <<connVars, envVars>>
    \/ GC2_AfterFirst /\ UNCHANGED envVars
    \/ GC2_Delay /\ UNCHANGED envVars
    \/ GC2_AfterSecond /\ UNCHANGED envVars
    \/ UBahnSettle(CallPayloads) /\ UNCHANGED envVars
    \/ GC2_Join /\ UNCHANGED envVars
    \/ GC2_Spittelau /\ UNCHANGED envVars
    \/ GC1_AfterFirst /\ UNCHANGED envVars
    \/ GC1_AfterSecond /\ UNCHANGED envVars
    \/ LC_Resume

SpecLive == Init /\ [][NextLive]_vars /\ WF_vars(NextLive)

---------------------------------------------------------------------------
(* Specification of two getConnections calls in flight at once *)

InitPair ==
    /\ variant \in {1, 2}
    /\ mode = "conn"
    /\ direction \in {"forward", "reverse"}
    /\ gpc = "fetch1"
    /\ fpc = "request"
    /\ attempt = 0
    /\ requests = 0
    /\ delays = 0
    /\ outcomes = <<>>
    /\ raw = <<>>
    /\ kept = <<>>
    /\ ret = <<>>
    /\ primary = <<>>
    /\ secondary = <<>>
    /\ failed = {}
    /\ ubahn = NoDepartures
    /\ connections = <<>>
    /\ result = <<>>
    /\ ui = UiLoading
    /\ cur = 1
    /\ other \in {StartedRun(dir) : dir \in {"forward", "reverse"}}
    /\ page = initializeApp(Some(direction))
    /\ sw = NoWorker

NextPair ==
    \/ FetchRequest(PairResponses, {}) /\ UNCHANGED <<connVars, envVars>>
    \/ Fetch1Request(PairResponses, {}) /\ UNCHANGED <<connVars, envVars>>
    \/ GC2_AfterFirst /\ UNCHANGED envVars
    \/ GC2_Delay /\ UNCHANGED envVars
    \/ GC2_AfterSecond /\ UNCHANGED envVars
    \/ UBahnSettle(PairPayloads) /\ UNCHANGED envVars
    \/ GC2_Join /\ UNCHANGED envVars
    \/ GC2_Spittelau /\ UNCHANGED envVars
    \/ GC1_AfterFirst /\ UNCHANGED envVars
    \/ GC1_AfterSecond /\ UNCHANGED envVars
    \/ Switch

SpecPair == InitPair /\ [][NextPair]_vars

---------------------------------------------------------------------------
(* Specification of the page: refreshes started by the timer, the refresh button,
   a visibility change or a direction switch while earlier ones are in flight *)

\* the run whose local variables are held in run has no await pending
Ended(run) == run.gpc \in {"idle", "shown"}

\* an await of the running call lets the other call in flight go on; when
\* getConnections has returned, the rest of loadConnections runs before any event
\* handler, timer or response is served
Yield == gpc # "done" /\ Switch

\* loadConnections up to the first await: showLoading(true) and
\* getConnections(currentDirection) up to its first request
LoadConnections ==
    /\ mode = "conn"
    /\ gpc # "done"
    /\ Ended(other)
    /\ ui' = [ui EXCEPT !.loading = TRUE]
    /\ other' = StartedRun(page.currentDirection)
    /\ UNCHANGED <<variant, mode, fetchVars, connVars, cur, page, sw>>

\* switchDirection: toggle, save, and loadConnections up to the first await
switchDirection ==
    /\ mode = "conn"
    /\ gpc # "done"
    /\ Ended(other)
    /\ LET toggled == IF page.currentDirection = "forward" THEN "reverse" ELSE "forward"
       IN /\ page' = [currentDirection |-> toggled, stored |-> Some(toggled),
                      trail |-> Trail(page.trail, toggled)]
          /\ other' = StartedRun(toggled)
    /\ ui' = [ui EXCEPT !.loading = TRUE]
    /\ UNCHANGED <<variant, mode, fetchVars, connVars, cur, sw>>

\* what localStorage may hold under 'direction' when the page is opened
SavedDirections == {None, Some(""), Some("forward"), Some("reverse"), Some("backward")}

\* DOMContentLoaded: initializeApp() and loadConnections() up to the first await
InitPage ==
    /\ variant = 2
    /\ mode = "conn"
    /\ page \in {initializeApp(saved) : saved \in SavedDirections}
    /\ direction = page.currentDirection
    /\ gpc = "fetch1"
    /\ fpc = "request"
    /\ attempt = 0
    /\ requests = 0
    /\ delays = 0
    /\ outcomes = <<>>
    /\ raw = <<>>
    /\ kept = <<>>
    /\ ret = <<>>
    /\ primary = <<>>
    /\ secondary = <<>>
    /\ failed = {}
    /\ ubahn = NoDepartures
    /\ connections = <<>>
    /\ result = <<>>
    /\ ui = UiLoading
    /\ cur = 1
    /\ other = NoRun
    /\ sw = NoWorker

NextPage ==
    \/ FetchRequest(PageResponses, {}) /\ UNCHANGED <<connVars, envVars>>
    \/ GC2_AfterFirst /\ UNCHANGED envVars
    \/ GC2_Delay /\ UNCHANGED envVars
    \/ GC2_AfterSecond /\ UNCHANGED envVars
    \/ UBahnSettle(PairPayloads) /\ UNCHANGED envVars
    \/ GC2_Join /\ UNCHANGED envVars
    \/ GC2_Spittelau /\ UNCHANGED envVars
    \/ LC_Resume
    \/ Yield
    \/ LoadConnections
    \/ switchDirection

SpecPage == InitPage /\ [][NextPage]_vars

---------------------------------------------------------------------------
(* Specification of one fetchJourneys call *)

InitFetch ==
    /\ variant \in {1, 2}
    /\ mode = "fetch"
    /\ fpc = "request"
    /\ attempt = 0
    /\ requests = 0
    /\ delays = 0
    /\ outcomes = <<>>
    /\ raw = <<>>
    /\ kept = <<>>
    /\ ret = <<>>
    /\ direction = "forward"
    /\ gpc = "idle"
    /\ primary = <<>>
    /\ secondary = <<>>
    /\ failed = {}
    /\ ubahn = NoDepartures
    /\ connections = <<>>
    /\ result = <<>>
    /\ ui = UiLoading
    /\ cur = 1
    /\ other = NoRun
    /\ page = initializeApp(Some(direction))
    /\ sw = NoWorker

NextFetch ==
    \/ FetchRequest(FetchResponses, FailureKinds) /\ UNCHANGED <<connVars, envVars>>
    \/ FetchWait /\ UNCHANGED <<connVars, envVars>>
    \/ Fetch1Request(FetchResponses, FailureKinds) /\ UNCHANGED <<connVars, envVars>>

SpecFetch == InitFetch /\ [][NextFetch]_vars

---------------------------------------------------------------------------
(* Specification of the final sort and cut of getConnections *)

\* sequences without repetition of at most n elements of S
RECURSIVE InjSeqs(_, _)
InjSeqs(S, n) ==
    IF n = 0 THEN {<<>>}
    ELSE {<<>>} \cup UNION {{<<x>> \o t : t \in InjSeqs(S \ {x}, n - 1)} : x \in S}

\* journeys as fetchJourneys returns them, no two with the same departure and
\* first-leg line name, several with the same departure
SelectJourneys ==
    {Normalize(<<RawJourney(d, ks)>>)[1] :
        d \in {0, 120000}, ks \in {<<KindS1>>, <<KindREX>>, <<KindWalk, KindREX>>}}
      \cup {Normalize(<<RawJourney(240000, <<KindS1>>)>>)[1]}

\* the merged connections when the base fetch returned these journeys
InitSelect ==
    /\ variant \in {1, 2}
    /\ mode = "select"
    /\ direction = "forward"
    /\ gpc = "merged"
    /\ primary \in InjSeqs(SelectJourneys, MaxConnections)
    /\ connections = IF variant = 2
                     THEN SetBaseForward(<<>>, primary, <<>>)
                     ELSE PushAll(<<>>, primary, "forward", "Wien Mitte")
    /\ secondary = <<>>
    /\ failed = {}
    /\ ubahn = NoDepartures
    /\ result = <<>>
    /\ fpc = "idle"
    /\ attempt = 0
    /\ requests = 0
    /\ delays = 0
    /\ outcomes = <<>>
    /\ raw = <<>>
    /\ kept = <<>>
    /\ ret = <<>>
    /\ ui = UiLoading
    /\ cur = 1
    /\ other = NoRun
    /\ page = initializeApp(Some(direction))
    /\ sw = NoWorker

\* the return statement of getConnections
ReturnSelected ==
    /\ mode = "select" /\ gpc = "merged"
    /\ result' = IF variant = 2 THEN Select(connections)
                               ELSE Select1(MapValues(connections))
    /\ gpc' = "done"
    /\ UNCHANGED <<variant, mode, direction, primary, secondary, failed, ubahn,
                   connections, fetchVars, envVars>>

NextSelect == ReturnSelected

SpecSelect == InitSelect /\ [][NextSelect]_vars

---------------------------------------------------------------------------
(* Specification of the Map after the base fetch, with journeys that share keys *)

\* journeys as fetchJourneys returns them, two of them with the same departure
\* and first-leg line name
KeyJourneys == {Normalize(<<j>>)[1] : j \in ConnJourneys}

InitKeys ==
    /\ variant = 2
    /\ mode = "select"
    /\ direction \in {"forward", "reverse"}
    /\ gpc = "merged"
    /\ primary \in SeqsUpTo(KeyJourneys, MaxPrimaries)
    /\ connections = Correlate(<<>>, direction, primary, <<>>, NoDepartures)
    /\ secondary = <<>>
    /\ failed = {}
    /\ ubahn = NoDepartures
    /\ result = <<>>
    /\ fpc = "idle"
    /\ attempt = 0
    /\ requests = 0
    /\ delays = 0
    /\ outcomes = <<>>
    /\ raw = <<>>
    /\ kept = <<>>
    /\ ret = <<>>
    /\ ui = UiLoading
    /\ cur = 1
    /\ other = NoRun
    /\ page = initializeApp(Some(direction))
    /\ sw = NoWorker

SpecKeys == InitKeys /\ [][NextSelect]_vars

---------------------------------------------------------------------------
(* Specification of the service worker *)

RequestUrls == {JourneysUrl, RestUrl, Origin \o <<"app", "js">>, Origin \o <<"style", "css">>}

InitWorker ==
    /\ variant = 2
    /\ mode = "worker"
    /\ direction = "forward"
    /\ gpc = "idle"
    /\ primary = <<>>
    /\ secondary = <<>>
    /\ failed = {}
    /\ ubahn = NoDepartures
    /\ connections = <<>>
    /\ result = <<>>
    /\ fpc = "idle"
    /\ attempt = 0
    /\ requests = 0
    /\ delays = 0
    /\ outcomes = <<>>
    /\ raw = <<>>
    /\ kept = <<>>
    /\ ret = <<>>
    /\ ui = UiLoading
    /\ cur = 1
    /\ other = NoRun
    /\ page = initializeApp(None)
    \* an earlier version of the worker may have left a cache of another name
    /\ sw \in {[NoWorker EXCEPT !.stale = st] : st \in {{}, {Origin \o <<"style", "css">>}}}

\* install: cache.addAll(urlsToCache) into the cache CACHE_NAME
SW_Install ==
    /\ mode = "worker"
    /\ sw.cached = {}
    /\ sw' = [sw EXCEPT !.cached = urlsToCache]

\* activate: every cache whose name is not CACHE_NAME is deleted
SW_Activate ==
    /\ mode = "worker"
    /\ sw.stale # {}
    /\ sw' = [sw EXCEPT !.stale = {}]

\* the fetch event of one request of the page
SW_Fetch ==
    /\ mode = "worker"
    /\ Len(sw.served) < MaxEvents
    /\ \E url \in RequestUrls, online \in BOOLEAN :
         sw' = [sw EXCEPT !.served =
                   Append(@, [url |-> url, online |-> online,
                              reply |-> Respond(sw.cached \cup sw.stale, url, online)])]

NextWorker ==
    \/ SW_Install /\ UNCHANGED <<variant, mode, fetchVars, connVars, ui, cur, other, page>>
    \/ SW_Activate /\ UNCHANGED <<variant, mode, fetchVars, connVars, ui, cur, other, page>>
    \/ SW_Fetch /\ UNCHANGED <<variant, mode, fetchVars, connVars, ui, cur, other, page>>

SpecWorker == InitWorker /\ [][NextWorker]_vars

---------------------------------------------------------------------------
(* Properties of one fetchJourneys call (SpecFetch) *)

LastOutcome == IF Len(outcomes) = 0 THEN "none" ELSE outcomes[Len(outcomes)]

IsFailure(k) == k \in {"http_error", "network_error", "parse_error", "malformed"}

AllMalformed ==
    Len(outcomes) > 0 /\ \A k \in 1..Len(outcomes) : outcomes[k] = "malformed"

\* C1: when every response of the retrying fetchJourneys has a success status but
\* no valid journeys array, the call issues exactly retries + 1 = 3 requests and
\* then returns the empty array; it does not return earlier and never throws.
C1_MalformedExhausts ==
    (variant = 2 /\ mode = "fetch" /\ AllMalformed) =>
        /\ fpc # "thrown"
        /\ requests <= 3
        /\ (fpc = "returned" <=> requests = 3)
        /\ (fpc = "returned" => ret = <<>>)

C1_Witness ==
    variant = 2 /\ mode = "fetch" /\ fpc = "returned" /\ AllMalformed /\ requests = 3

\* C2: in the retrying fetchJourneys every failed request (status not ok, rejected
\* fetch, JSON parse error, malformed payload) consumes one attempt; while attempts
\* remain the call goes on to a retry, and once retries + 1 requests have failed,
\* in any mix, the call returns the empty array; it never throws.
C2_FailuresRetriedThenEmpty ==
    (variant = 2 /\ mode = "fetch") =>
        /\ fpc \in {"request", "wait", "returned"}
        /\ requests = Len(outcomes)
        /\ requests <= Retries + 1
        /\ (fpc = "wait" => attempt = requests - 1)
        /\ (fpc = "request" => attempt = requests)
        /\ IsFailure(LastOutcome) =>
              IF requests <= Retries
              THEN fpc \in {"wait", "request"}
              ELSE fpc = "returned" /\ ret = <<>>

C2_Witness ==
    /\ variant = 2 /\ mode = "fetch" /\ fpc = "returned" /\ ret = <<>>
    /\ Len(outcomes) = Retries + 1
    /\ \A k \in 1..Len(outcomes) : IsFailure(outcomes[k])
    /\ Cardinality(Range(outcomes)) = 3
    /\ "malformed" \in Range(outcomes)

\* what the filter is to accept, stated on the raw record
LegIsAdmissible(leg) ==
    leg.walking \/
    (~IsNull(leg.line) /\ Val(leg.line).product \in {"suburban", "regional", "subway"})

RawIsAdmissible(j) ==
    /\ ~IsNull(j.legs)
    /\ Len(Val(j.legs)) >= 1
    /\ \A k \in 1..Len(Val(j.legs)) : LegIsAdmissible(Val(j.legs)[k])

IsLegless(j) == IsNull(j.legs) \/ Len(Val(j.legs)) = 0

\* C3: every journey the retrying fetchJourneys returns stems from a raw journey
\* with at least one leg, all of whose legs are walking legs or have a line with a
\* product among suburban, regional, subway; and every raw journey of that kind is
\* returned.
C3_FilterSound ==
    (variant = 2 /\ mode = "fetch" /\ fpc = "returned") =>
        /\ Len(ret) = Len(kept)
        /\ \A n \in 1..Len(kept) : kept[n] \in 1..Len(raw)
        /\ \A n \in 1..Len(ret) :
              LET j == raw[kept[n]] IN
              /\ RawIsAdmissible(j)
              /\ Len(ret[n].legs) = Len(Val(j.legs))
              /\ \A k \in 1..Len(ret[n].legs) :
                    /\ IsNull(ret[n].legs[k].line) = IsNull(Val(j.legs)[k].line)
                    /\ ~IsNull(ret[n].legs[k].line) =>
                          Val(ret[n].legs[k].line).product = Val(Val(j.legs)[k].line).product
        /\ \A i \in 1..Len(raw) : RawIsAdmissible(raw[i]) => i \in Range(kept)

C3_Witness ==
    /\ variant = 2 /\ mode = "fetch" /\ fpc = "returned"
    /\ Len(raw) = 2 /\ Len(ret) = 1
    /\ \E k \in 1..Len(Val(raw[kept[1]].legs)) : Val(raw[kept[1]].legs)[k].walking
    /\ \E i \in 1..Len(raw) :
          /\ ~IsLegless(raw[i])
          /\ ~RawIsAdmissible(raw[i])

\* C4: no journey returned by fetchJourneys consists only of walking legs.
C4_NoAllWalking ==
    (mode = "fetch" /\ fpc = "returned") =>
        \A n \in 1..Len(ret) :
            \E k \in 1..Len(Val(raw[kept[n]].legs)) : ~Val(raw[kept[n]].legs)[k].walking

\* C5: a raw record with zero legs or without a legs field never makes
\* fetchJourneys fail, in either variant: the call returns, the record is left
\* out and the admissible journeys of the same response are returned.
C5_LeglessExcluded ==
    (/\ mode = "fetch"
     /\ fpc \in {"returned", "thrown"}
     /\ LastOutcome = "ok"
     /\ \E i \in 1..Len(raw) : IsLegless(raw[i])) =>
        /\ fpc = "returned"
        /\ \A i \in 1..Len(raw) : IsLegless(raw[i]) => i \notin Range(kept)
        /\ \A i \in 1..Len(raw) : RawIsAdmissible(raw[i]) => i \in Range(kept)

\* the statement of C5 for the retrying variant alone
C5_RetryingVariant == variant = 2 => C5_LeglessExcluded

NonWalkingLegs(j) == Cardinality({k \in 1..Len(Val(j.legs)) : ~Val(j.legs)[k].walking})

\* C6: every journey returned by fetchJourneys has
\* transfers = max(0, number of non-walking legs - 1).
C6_TransfersCountRides ==
    (mode = "fetch" /\ fpc = "returned") =>
        \A n \in 1..Len(ret) :
            LET rides == NonWalkingLegs(raw[kept[n]])
            IN ret[n].transfers = IF rides >= 1 THEN rides - 1 ELSE 0

\* d = Math.round(diff / 60000)
IsRoundedMinutes(d, diff) ==
    /\ 2 * 60000 * d <= 2 * diff + 60000
    /\ 2 * diff + 60000 < 2 * 60000 * (d + 1)

\* the part of C7 about the journeys fetchJourneys returns
C7_FetchedJourneys ==
    (mode = "fetch" /\ fpc = "returned") =>
        \A n \in 1..Len(ret) :
            LET legs == Val(raw[kept[n]].legs) IN
            /\ ret[n].departure = legs[1].departure
            /\ ret[n].arrival = legs[Len(legs)].arrival
            /\ IsRoundedMinutes(ret[n].duration, ret[n].arrival - ret[n].departure)

---------------------------------------------------------------------------
(* Properties of one getConnections call (Spec) *)

Done == mode = "conn" /\ gpc = "done"
Done2 == Done /\ variant = 2

\* departure and first-leg line name of a journey or connection
KeyOf(c) == <<c.departure, IF IsNull(c.legs[1].line) THEN <<>> ELSE Val(c.legs[1].line).name>>

\* positions of the Map entries that stem from the base fetch
Correlated == {k \in 1..Len(connections) : ~connections[k].value.isUBahn}

\* positions of the secondary journeys that have the key of connection c
MatchesOf(c) == {j \in 1..Len(secondary) : KeyOf(secondary[j]) = KeyOf(c)}

MaxOf(S) == CHOOSE x \in S : \A y \in S : y <= x

\* the arrival of the base fetch as the entry keeps it
BaseArrival(c) == IF direction = "forward" THEN c.wienMitteArrival ELSE c.floridsdorfArrival

\* C7: every connection getConnections returns, the synthesized direct U-Bahn
\* connection included, has departure = its first leg's departure, arrival = its
\* last leg's arrival and duration = round((arrival - departure) / 60000).
C7_DerivedTimes ==
    Done2 =>
        \A n \in 1..Len(result) :
            LET c == result[n] IN
            /\ c.departure = c.legs[1].departure
            /\ c.arrival = c.legs[Len(c.legs)].arrival
            /\ IsRoundedMinutes(c.duration, c.arrival - c.departure)

\* C8: after the merge the correlated connections have exactly the keys
\* (departure, first-leg line name) of the primary journeys, one entry per key; an
\* entry carries as pratersternArrival the arrival of the (last) secondary journey
\* with its key, and null when no secondary journey has its key; a secondary
\* journey without a matching key adds no entry and leaves every entry as the
\* primary fetch made it.
C8_Correlation ==
    Done2 =>
        /\ {KeyOf(connections[k].value) : k \in Correlated}
              = {KeyOf(primary[i]) : i \in 1..Len(primary)}
        /\ \A k, l \in Correlated :
              KeyOf(connections[k].value) = KeyOf(connections[l].value) => k = l
        /\ \A k \in Correlated :
              LET c == connections[k].value IN
              /\ IF MatchesOf(c) = {}
                 THEN IsNull(c.pratersternArrival)
                 ELSE c.pratersternArrival = Some(secondary[MaxOf(MatchesOf(c))].arrival)
              /\ \E i \in 1..Len(primary) :
                    /\ KeyOf(primary[i]) = KeyOf(c)
                    /\ c.arrival = primary[i].arrival
                    /\ c.legs = primary[i].legs
                    /\ BaseArrival(c) = Some(primary[i].arrival)

C8_Witness ==
    /\ Done2
    /\ Len(primary) = 1 /\ Len(secondary) = 2
    /\ \E j \in 1..2 :
          /\ KeyOf(secondary[j]) = KeyOf(primary[1])
          /\ secondary[j].arrival # primary[1].arrival
    /\ \E j \in 1..2 :
          /\ secondary[j].departure = primary[1].departure
          /\ KeyOf(secondary[j]) # KeyOf(primary[1])
    /\ \E n \in 1..Len(result) : ~IsNull(result[n].pratersternArrival)

\* C9: a primary journey whose key no secondary journey has (also when the
\* secondary fetch returned [] after exhausting its retries) keeps its entry with
\* pratersternArrival null, and getConnections returns it (the Map never holding
\* more than the 6 entries returned).
C9_MissKeepsConnection ==
    Done2 =>
        \A i \in 1..Len(primary) :
            MatchesOf(primary[i]) = {} =>
                /\ \E k \in Correlated :
                      /\ KeyOf(connections[k].value) = KeyOf(primary[i])
                      /\ IsNull(connections[k].value.pratersternArrival)
                /\ Len(connections) <= 6 =>
                      \E n \in 1..Len(result) :
                          /\ ~result[n].isUBahn
                          /\ KeyOf(result[n]) = KeyOf(primary[i])
                          /\ IsNull(result[n].pratersternArrival)

C9_Witness ==
    /\ Done2
    /\ 2 \in failed /\ secondary = <<>>
    /\ Len(primary) = 2
    /\ KeyOf(primary[1]) # KeyOf(primary[2])
    /\ Len(result) >= 2
    /\ \A n \in 1..Len(result) : IsNull(result[n].pratersternArrival)

OfDeparture(s, d) == SelectSeq(s, LAMBDA c : c.departure = d)

IsPrefix(a, b) == Len(a) <= Len(b) /\ SubSeq(b, 1, Len(a)) = a

Limit == IF variant = 2 THEN 6 ELSE 5

\* C10: the sequence getConnections returns is sorted ascending by departure, and
\* connections with equal departure keep the order in which they were inserted.
C10_SortedStable ==
    Done =>
        /\ Len(result) = IF Len(connections) < Limit THEN Len(connections) ELSE Limit
        /\ \A n \in 1..(Len(result) - 1) : result[n].departure <= result[n + 1].departure
        /\ \A n \in 1..Len(result) :
              IsPrefix(OfDeparture(result, result[n].departure),
                       OfDeparture(MapValues(connections), result[n].departure))

C10_Witness ==
    /\ Done2
    /\ \E k, l \in 1..Len(connections) :
          k < l /\ connections[k].value.departure > connections[l].value.departure
    /\ \E n \in 1..(Len(result) - 1) :
          /\ result[n].departure = result[n + 1].departure
          /\ result[n] # result[n + 1]

---------------------------------------------------------------------------
(* Properties of the final sort and cut (SpecSelect) *)

\* how often the connection c occurs in the sequence s
Count(s, c) == Cardinality({k \in 1..Len(s) : s[k] = c})

\* C11: getConnections returns the first min(limit, n) elements of the
\* departure-sorted list of its n merged connections: at most limit entries, each
\* one of the merged connections, in ascending order of departure, none departing
\* later than an omitted one; no connections give the empty sequence.
C11_Truncation ==
    gpc = "done" =>
        LET merged == MapValues(connections) IN
        /\ Len(result) <= Limit
        /\ Len(result) = IF Len(merged) < Limit THEN Len(merged) ELSE Limit
        /\ \A i \in 1..Len(result) : Count(result, result[i]) <= Count(merged, result[i])
        /\ \A i \in 1..(Len(result) - 1) : result[i].departure <= result[i + 1].departure
        /\ \A j \in 1..Len(merged) :
              Count(merged, merged[j]) > Count(result, merged[j]) =>
                  \A i \in 1..Len(result) : result[i].departure <= merged[j].departure
        /\ Len(merged) = 0 => result = <<>>

C11_Witness ==
    /\ mode = "select" /\ gpc = "done" /\ variant = 2
    /\ Len(connections) = 7 /\ Len(result) = 6
    /\ connections[1].value.departure = 240000
    /\ connections[2].value.departure = 0

---------------------------------------------------------------------------
(* Further properties of one fetchJourneys call (SpecFetch) *)

ReturnedOk == mode = "fetch" /\ fpc = "returned" /\ LastOutcome = "ok"

\* positions of the admissible records of the raw journeys array
Admissible == {i \in 1..Len(raw) : RawIsAdmissible(raw[i])}

\* position in raw of the n-th admissible record
NthAdmissible(n) ==
    CHOOSE i \in Admissible : Cardinality({j \in Admissible : j <= i}) = n

\* the returned journey r carries the times and products of the raw journey j
StemsFrom(r, j) ==
    /\ Len(r.legs) = Len(Val(j.legs))
    /\ \A k \in 1..Len(r.legs) :
          /\ r.legs[k].departure = Val(j.legs)[k].departure
          /\ r.legs[k].arrival = Val(j.legs)[k].arrival
          /\ IsNull(r.legs[k].line) = IsNull(Val(j.legs)[k].line)
          /\ ~IsNull(r.legs[k].line) =>
                Val(r.legs[k].line).product = Val(Val(j.legs)[k].line).product

\* C12: the journeys fetchJourneys returns are in the order of the accepted
\* records of the raw journeys array: the n-th returned journey stems from the
\* n-th accepted record.
C12_OrderPreserved ==
    ReturnedOk =>
        /\ Len(ret) = Cardinality(Admissible)
        /\ \A n \in 1..Len(ret) : StemsFrom(ret[n], raw[NthAdmissible(n)])

C12_Witness ==
    /\ ReturnedOk /\ variant = 2
    /\ Len(raw) = 2 /\ Len(ret) = 2
    /\ ~StemsFrom(ret[1], raw[2])
    /\ ret[1].arrival > ret[2].arrival

\* a raw leg with its texts as the cleanup leaves them
CleanedLeg(leg) ==
    [leg EXCEPT !.line = IF IsNull(leg.line) THEN None
                         ELSE Some([Val(leg.line) EXCEPT
                                        !.name = cleanLineName(Val(leg.line).name)]),
                !.direction = cleanOpt(leg.direction)]

CleanedJourney(j) ==
    IF IsNull(j.legs) THEN j
    ELSE [legs |-> Some([k \in 1..Len(Val(j.legs)) |-> CleanedLeg(Val(j.legs)[k])])]

CleanedRaw(js) == [i \in 1..Len(js) |-> CleanedJourney(js[i])]

\* C13: text cleanup does not influence acceptance: the retrying fetchJourneys
\* accepts the same records of a raw journeys array whether their line names and
\* directions read as received or as cleaned, and a record is accepted exactly
\* when its walking flags and line products admit it.
C13_CleanupNeutral ==
    (ReturnedOk /\ variant = 2) =>
        /\ Len(ret) = Len(kept)
        /\ kept = Kept(CleanedRaw(raw))
        /\ \A i \in 1..Len(raw) : (i \in Range(kept)) <=> RawIsAdmissible(raw[i])

C13_Witness ==
    /\ ReturnedOk /\ variant = 2
    /\ Len(ret) = 1 /\ Len(raw) = 2
    /\ CleanedRaw(raw) # raw
    /\ Val(ret[1].legs[1].line).name # Val(Val(raw[kept[1]].legs)[1].line).name

---------------------------------------------------------------------------
(* Properties of two getConnections calls in flight (SpecPair) *)

BothDone == mode = "conn" /\ gpc = "done" /\ other.gpc = "done"

\* the departure lists the Spittelau request of a call yielded, read from its
\* direct connection
SpittelauLists(m) ==
    {Val(m[k].value.ubahnConnections.spittelau).next :
        k \in {n \in 1..Len(m) : m[n].value.isUBahn}}

\* the two calls had the same direction and got the same from every fetch
SameResponses ==
    /\ direction = other.direction
    /\ primary = other.primary
    /\ secondary = other.secondary
    /\ failed = other.failed
    /\ ubahn = other.ubahn
    /\ SpittelauLists(connections) = SpittelauLists(other.connections)

\* C14: two runs of getConnections with the same direction and identical responses
\* to every fetch return identical sequences, whatever the wall-clock time of each.
C14_Deterministic ==
    (BothDone /\ variant = 2 /\ SameResponses) => result = other.result

\* the entries of the Map m that stem from journeys
JourneyEntries(m) == SelectSeq(m, LAMBDA e : ~e.value.isUBahn)

DirectEntries(m) == SelectSeq(m, LAMBDA e : e.value.isUBahn)

\* whether a call with the local variables run builds a direct connection
BuildsDirect(run) == Len(run.ubahn.first) > 0 /\ run.ubahn.first[1] # INVALID_DATE

\* what a finished call with the local variables run holds when it ran alone
\* with the fetch results it has
RanAlone(run) ==
    IF variant = 2
    THEN /\ JourneyEntries(run.connections)
              = Correlate(<<>>, run.direction, run.primary, run.secondary, run.ubahn)
         /\ Len(DirectEntries(run.connections)) = IF BuildsDirect(run) THEN 1 ELSE 0
         /\ run.result = Select(run.connections)
    ELSE /\ Len(run.connections) = Len(run.primary) + Len(run.secondary)
         /\ \A k \in 1..Len(run.connections) :
               LET c == run.connections[k].value
                   j == IF k <= Len(run.primary) THEN run.primary[k]
                        ELSE run.secondary[k - Len(run.primary)]
               IN c.departure = j.departure /\ c.arrival = j.arrival /\ c.legs = j.legs
         /\ run.result = Select1(MapValues(run.connections))

\* C15: with two getConnections calls in flight and their steps interleaved, each
\* call returns what it would return alone with its direction and its fetch
\* results; the Map of a call holds nothing of the other call.
C15_Reentrant ==
    (mode = "conn" /\ other.gpc # "idle") =>
        /\ gpc = "done" => RanAlone(Locals)
        /\ other.gpc = "done" => RanAlone(other)

C15_Witness ==
    /\ BothDone /\ variant = 2 /\ cur = 2
    /\ direction = "forward" /\ other.direction = "forward"
    /\ primary # other.primary
    /\ Len(primary) = 2 /\ Len(other.primary) = 1
    /\ Len(result) = 3 /\ Len(other.result) = 2

---------------------------------------------------------------------------
(* Properties of the joined U-Bahn fetches and of failures (Spec) *)

\* the value Promise.all holds at position k
SlotValue(u, k) == IF k = 1 THEN u.first ELSE IF k = 2 THEN u.second ELSE u.third

\* C16: the result of a refresh does not depend on the order in which the three
\* fetchUBahnDepartures calls under Promise.all settle: whatever the order, each
\* call's value is read under the name of its position, and the merged
\* connections are built from the values so named.
C16_CompletionOrderFree ==
    /\ (variant = 2 /\ mode = "conn" /\ gpc = "ubahn") =>
          \A n \in 1..Len(ubahn.order) :
              SlotValue(ubahn, ubahn.order[n].call) = ubahn.order[n].value
    /\ Done2 =>
          /\ \A k \in Correlated :
                LET u == connections[k].value.ubahnConnections IN
                IF direction = "forward"
                THEN /\ Val(u.wienMitte).nextU4 = ubahn.third
                     /\ ~IsNull(u.praterstern) => Val(u.praterstern).nextU1 = ubahn.second
                ELSE /\ u.karlsplatzU4 = Some(SubSeq(ubahn.first, 1, Len(ubahn.first)))
                     /\ u.karlsplatzU1 = Some(SubSeq(ubahn.second, 1, Len(ubahn.second)))
          /\ \A k \in 1..Len(connections) :
                (connections[k].value.isUBahn /\ direction = "reverse") =>
                    Val(connections[k].value.ubahnConnections.spittelau).next = ubahn.third
          /\ (\E k \in 1..Len(connections) : connections[k].value.isUBahn)
                <=> (Len(ubahn.first) > 0 /\ 3 \notin failed)

C16_Witness ==
    /\ variant = 2 /\ mode = "conn" /\ gpc = "ubahn"
    /\ Len(ubahn.order) = 3
    /\ ubahn.order[1].call = 3 /\ ubahn.order[2].call = 1
    /\ Len(primary) > 0
    /\ ubahn.first # ubahn.second /\ ubahn.second # ubahn.third /\ ubahn.first # ubahn.third

\* C17: an exception raised inside the pipeline of getConnections (here: while
\* the direct U-Bahn connection is built) reaches loadConnections, which shows
\* the error message and neither displays a result nor updates the last-update
\* time.
C17_ExceptionSurfaces ==
    (variant = 2 /\ mode = "conn" /\ gpc = "shown" /\ 3 \in failed) =>
        /\ ui.error
        /\ ~ui.updated
        /\ ui.shown = <<>>

---------------------------------------------------------------------------
(* Repetition, retry protocol and termination *)

RetryCounts ==
    (variant = 2 /\ mode = "fetch") =>
        /\ requests <= Retries + 1
        /\ fpc = "request" => (requests = attempt /\ delays = requests)
        /\ fpc = "wait" => (requests = attempt + 1 /\ delays = requests - 1
                              /\ IsFailure(LastOutcome) /\ requests <= Retries)
        /\ fpc = "returned" => delays = requests - 1
        /\ \A k \in 1..Len(outcomes) :
              outcomes[k] = "ok" => (k = Len(outcomes) /\ fpc = "returned")

\* C19: the retrying fetchJourneys issues its attempts one after another; the
\* first attempt that yields a journeys array ends the call and no request
\* follows; one 1-second delay lies between a failed attempt and the next
\* attempt, none after the last attempt; there are never more than retries + 1
\* requests.
C19_RetryProtocol ==
    /\ []RetryCounts
    /\ [][(variant = 2 /\ mode = "fetch") =>
             /\ fpc = "returned" => (requests' = requests /\ delays' = delays)
             /\ requests' \in {requests, requests + 1}
             /\ requests' = requests + 1 => (fpc = "request" /\ delays' = delays)
             /\ delays' = delays + 1 => (fpc = "wait" /\ fpc' = "request")]_vars

C19_Witness ==
    /\ variant = 2 /\ mode = "fetch" /\ fpc = "returned"
    /\ Len(outcomes) = 3 /\ outcomes[3] = "ok"
    /\ outcomes[1] = "malformed" /\ outcomes[2] = "network_error"
    /\ requests = 3 /\ delays = 2
    /\ Len(ret) > 0

\* C20: when every request resolves or rejects and every timer fires, each
\* fetchJourneys call returns (or, without retry, throws) and each getConnections
\* call returns, and no fetchJourneys call issues more than retries + 1 requests.
C20_Terminates ==
    /\ <>(mode = "conn" /\ gpc = "done")
    /\ (fpc = "request") ~> (fpc \in {"returned", "thrown"})
    /\ [](requests <= Retries + 1)
    /\ [](variant = 1 => requests <= 1)

C20_Witness ==
    /\ mode = "conn" /\ gpc = "done" /\ variant = 2
    /\ failed = {1}
    /\ Len(primary) = 0
    /\ Len(secondary) = 1

---------------------------------------------------------------------------
(* Properties of the service worker (SpecWorker) *)

\* the fetch events for the journey API the page queries
ApiEvents == {n \in 1..Len(sw.served) : sw.served[n].url = JourneysUrl}

\* C21: a request to the journey API of the app is always sent to the network,
\* never answered from a cache, and when the network request fails the page
\* receives the JSON offline-error response, not a rejected fetch.
C21_ApiNetworkOrOfflineJson ==
    \A n \in ApiEvents :
        /\ sw.served[n].reply # "cache"
        /\ sw.served[n].online => sw.served[n].reply = "network"
        /\ ~sw.served[n].online => sw.served[n].reply = "offline_json"

---------------------------------------------------------------------------
(* Properties of getConnections without correlation (Spec, variant 1) *)

Done1 == mode = "conn" /\ variant = 1 /\ gpc \in {"done", "shown"}

\* a journey or connection without the fields getConnections adds, with the
\* station it was fetched for
Tagged(c, station) ==
    [departure |-> c.departure, arrival |-> c.arrival, duration |-> c.duration,
     transfers |-> c.transfers, legs |-> c.legs, station |-> station]

StationOf(c) == IF direction = "forward" THEN c.targetStation ELSE c.originStation

\* the journeys of the fetches that did not throw, first station first
Fetched1 ==
    (IF 1 \in failed THEN <<>>
     ELSE [n \in 1..Len(primary) |-> Tagged(primary[n], "Wien Mitte")])
    \o (IF 2 \in failed THEN <<>>
        ELSE [n \in 1..Len(secondary) |-> Tagged(secondary[n], "Praterstern")])

Returned1 == [n \in 1..Len(result) |-> Tagged(result[n], StationOf(result[n]))]

Isolated1 ==
    Done1 =>
        /\ Len(Returned1) = IF Len(Fetched1) < 5 THEN Len(Fetched1) ELSE 5
        /\ \A i \in 1..Len(Returned1) :
              Count(Returned1, Returned1[i]) <= Count(Fetched1, Returned1[i])
        /\ \A i \in 1..(Len(result) - 1) : result[i].departure <= result[i + 1].departure
        /\ \A j \in 1..Len(Fetched1) :
              Count(Fetched1, Fetched1[j]) > Count(Returned1, Fetched1[j]) =>
                  Fetched1[j].departure >= result[Len(result)].departure
        /\ failed = {1, 2} => result = <<>>

\* C22: in the variant without retry, a fetchJourneys that throws for one station
\* does not end getConnections: the second station is still fetched, the journeys
\* of the fetches that succeeded are returned sorted and cut to five, and when
\* both fetches throw the result is empty.
C22_StationFailuresIsolated ==
    /\ []Isolated1
    /\ [][(variant = 1 /\ mode = "conn" /\ gpc = "fetch1" /\ gpc' # "fetch1")
             => (gpc' = "fetch2" /\ fpc' = "request")]_vars

C22_Witness ==
    /\ Done1
    /\ failed = {1}
    /\ Len(secondary) = 2
    /\ Len(result) = 2

---------------------------------------------------------------------------
(* Properties of overlapping refreshes (SpecPage) *)

\* some loadConnections run has not reached its end
InFlight == ~Ended(Locals) \/ ~Ended(other)

\* two direction values that every test "=== 'forward'" treats alike
SameWay(a, b) == (a = "forward") <=> (b = "forward")

\* C23: under any interleaving of refresh triggers, the connections on the page
\* were rendered with the direction they were fetched for, and whenever no refresh
\* is in flight they were fetched for the current value of currentDirection.
C23_ShownForCurrentDirection ==
    (mode = "conn" /\ ui.fetchedFor # "none") =>
        /\ SameWay(ui.fetchedFor, ui.renderedAs)
        /\ ~InFlight => SameWay(ui.fetchedFor, page.currentDirection)

\* C24: while at least one loadConnections run is in flight, the loading indicator
\* is shown; it is hidden only when no run is in flight.
C24_LoadingWhileInFlight ==
    (mode = "conn" /\ InFlight) => ui.loading

\* C25: when its fetches and timers complete, a loadConnections run ends with the
\* loading indicator hidden, whether getConnections and the rendering succeeded or
\* threw.
C25_LoadingEventuallyHidden ==
    /\ (mode = "conn" /\ ui.loading) ~> (gpc = "shown" /\ ~ui.loading)
    /\ [](gpc = "shown" => ~ui.loading)

C25_Witness ==
    /\ mode = "conn" /\ gpc = "shown"
    /\ ui.error
    /\ ~ui.loading
    /\ Len(result) > 0 /\ ElementThrows(result[1])

---------------------------------------------------------------------------
(* Properties of rendering and of the page after a refresh (Spec) *)

\* C26: every connection getConnections returns can be rendered: its first leg has
\* a line with a product, and loadConnections ends without the error banner.
C26_Renderable ==
    /\ (mode = "conn" /\ variant = 2 /\ gpc \in {"done", "shown"}) =>
          \A n \in 1..Len(result) :
              /\ ~IsNull(result[n].legs[1].line)
              /\ Val(result[n].legs[1].line).product # NULL
    /\ (mode = "conn" /\ variant = 2 /\ gpc = "shown") => (~ui.error /\ ui.shown = result)

\* positions of the primary journeys that have the key of connection c
PrimariesOf(c) == {i \in 1..Len(primary) : KeyOf(primary[i]) = KeyOf(c)}

MinOf(S) == CHOOSE x \in S : \A y \in S : y >= x

\* C27: the merged set holds one connection per correlation key; of two primary
\* journeys with the same key the later one gives the connection its content and
\* the earlier one its position, so there are as many correlated connections as
\* distinct primary keys.
C27_OnePerKey ==
    (variant = 2 /\ gpc \in {"merged", "done"}) =>
        /\ \A k, l \in 1..Len(connections) : connections[k].key = connections[l].key => k = l
        /\ Cardinality(Correlated) = Cardinality({KeyOf(primary[i]) : i \in 1..Len(primary)})
        /\ \A k \in Correlated :
              LET c == connections[k].value
                  last == primary[MaxOf(PrimariesOf(c))]
              IN /\ PrimariesOf(c) # {}
                 /\ c.arrival = last.arrival
                 /\ c.duration = last.duration
                 /\ c.legs = last.legs
        /\ \A k, l \in Correlated :
              k < l => MinOf(PrimariesOf(connections[k].value))
                          < MinOf(PrimariesOf(connections[l].value))

C27_Witness ==
    /\ variant = 2 /\ gpc = "done"
    /\ Len(primary) = 3
    /\ KeyOf(primary[1]) = KeyOf(primary[3])
    /\ KeyOf(primary[1]) # KeyOf(primary[2])
    /\ primary[1].legs # primary[3].legs
    /\ Len(connections) = 2
    /\ connections[1].value.legs = primary[3].legs
    /\ Len(result) = 2

\* C28: a refresh in which every journey fetch used up its retries does not set
\* the last-update time and does not hide the error banner; only a refresh with at
\* least one successful journey fetch does.
C28_UpdateNeedsSuccess ==
    (mode = "conn" /\ variant = 2 /\ gpc = "shown" /\ {1, 2} \subseteq failed) =>
        ~ui.updated

===========================================================================
